---- MODULE Spec2Model ----
(***************************************************************************)
(* Model of embabel-agent-docs/chunk.py: convert a PDF, chunk the          *)
(* document, and serialise the chunks to a JSON Lines file.                *)
(*                                                                         *)
(* A character is a one-element string; a text is a sequence of            *)
(* characters.  "U+00E9" stands for one non-ASCII code point.              *)
(***************************************************************************)
EXTENDS Integers, Sequences, FiniteSets, TLC

\* ---------------------------------------------------------------- bounds
MaxChunks == 2
MaxTextLen == 1
MaxDocItems == 1
MaxLabels == 1
MaxPriorLines == 1

\* ------------------------------------------------------------ characters
Alphabet == {"n", "\"", "\\", "\n", "U+00E9"}

Digits == <<"0", "1", "2", "3", "4", "5", "6", "7", "8", "9">>

\* All sequences over S of length at most n.
BSeq(S, n) == UNION {[1..k -> S] : k \in 0..n}

RECURSIVE Flatten(_)
Flatten(ss) == IF ss = <<>> THEN <<>> ELSE Head(ss) \o Flatten(Tail(ss))

\* ss[1] sep ss[2] sep ... ss[n]   (str.join)
RECURSIVE Join(_, _)
Join(ss, sep) ==
    IF ss = <<>> THEN <<>>
    ELSE IF Len(ss) = 1 THEN ss[1]
    ELSE ss[1] \o sep \o Join(Tail(ss), sep)

\* --------------------------------------------------------- Python values
PyNone == [t |-> "none", v |-> <<>>]
PyInt(n) == [t |-> "int", v |-> n]
PyStr(s) == [t |-> "str", v |-> s]
PyList(xs) == [t |-> "list", v |-> xs]
\* a dict is its items in insertion order, each item a <<key, value>> pair
PyDict(items) == [t |-> "dict", v |-> items]

\* ------------------------------------------------------------ json.dumps
RECURSIVE IntChars(_)
IntChars(n) ==
    IF n < 0 THEN <<"-">> \o IntChars(0 - n)
    ELSE IF n < 10 THEN <<Digits[n + 1]>>
    ELSE IntChars(n \div 10) \o <<Digits[(n % 10) + 1]>>

\* ensure_ascii=False: only the quote, the backslash and control characters
\* are escaped; every other code point is written as it is.
\* as EscapeChar, but the quote is written as it is
EscapeCharNoQuote(c) ==
    CASE c = "\\" -> <<"\\", "\\">>
      [] c = "\n" -> <<"\\", "n">>
      [] c = "\r" -> <<"\\", "r">>
      [] c = "\t" -> <<"\\", "t">>
      [] OTHER -> <<c>>

EscapeChar(c) ==
    CASE c = "\"" -> <<"\\", "\"">>
      [] c = "\\" -> <<"\\", "\\">>
      [] c = "\n" -> <<"\\", "n">>
      [] c = "\r" -> <<"\\", "r">>
      [] c = "\t" -> <<"\\", "t">>
      [] OTHER -> <<c>>

EncodeString(s) ==
    <<"\"">> \o Flatten([k \in 1..Len(s) |-> EscapeChar(s[k])]) \o <<"\"">>

RECURSIVE Dumps(_)
Dumps(x) ==
    CASE x.t = "none" -> <<"n", "u", "l", "l">>
      [] x.t = "int" -> IntChars(x.v)
      [] x.t = "str" -> EncodeString(x.v)
      [] x.t = "list" ->
            <<"[">> \o Join([k \in 1..Len(x.v) |-> Dumps(x.v[k])], <<",", " ">>)
                    \o <<"]">>
      [] x.t = "dict" ->
            <<"{">> \o Join([k \in 1..Len(x.v) |->
                                EncodeString(x.v[k][1]) \o <<":", " ">>
                                    \o Dumps(x.v[k][2])],
                            <<",", " ">>)
                    \o <<"}">>

\* ------------------------------------------------------------ json.loads
\* The reader of the output file: a JSON decoder for the values the script
\* can write (null, integers, strings, arrays, objects).  A parse yields
\* [ok, val, pos]: pos is the position after the value.
ParseFail == [ok |-> FALSE, val |-> PyNone, pos |-> 0]
ParseOk(val, pos) == [ok |-> TRUE, val |-> val, pos |-> pos]

Whitespace == {" ", "\t", "\n", "\r"}

RECURSIVE SkipWs(_, _)
SkipWs(s, p) == IF p <= Len(s) /\ s[p] \in Whitespace THEN SkipWs(s, p + 1) ELSE p

DigitValue(c) == CHOOSE d \in 0..9 : Digits[d + 1] = c
IsDigit(c) == \E d \in 0..9 : Digits[d + 1] = c

\* \uXXXX escapes of the code points of Alphabet
UnicodeEscapes == {<<<<"0", "0", "e", "9">>, "U+00E9">>,
                   <<<<"0", "0", "2", "2">>, "\"">>,
                   <<<<"0", "0", "5", "c">>, "\\">>,
                   <<<<"0", "0", "0", "a">>, "\n">>,
                   <<<<"0", "0", "6", "e">>, "n">>}

SimpleEscapes == {<<"\"", "\"">>, <<"\\", "\\">>, <<"/", "/">>,
                  <<"n", "\n">>, <<"r", "\r">>, <<"t", "\t">>}

\* the characters of a string literal from position p (after the opening
\* quote) up to the closing quote; control characters must be escaped
RECURSIVE ParseChars(_, _, _)
ParseChars(s, p, acc) ==
    IF p > Len(s) THEN ParseFail
    ELSE IF s[p] = "\"" THEN ParseOk(PyStr(acc), p + 1)
    ELSE IF s[p] \in {"\n", "\r", "\t"} THEN ParseFail
    ELSE IF s[p] = "\\" THEN
        IF p + 1 > Len(s) THEN ParseFail
        ELSE IF \E e \in SimpleEscapes : e[1] = s[p + 1] THEN
            ParseChars(s, p + 2,
                Append(acc, (CHOOSE e \in SimpleEscapes : e[1] = s[p + 1])[2]))
        ELSE IF s[p + 1] = "u" /\ p + 5 <= Len(s)
                /\ \E u \in UnicodeEscapes : u[1] = SubSeq(s, p + 2, p + 5) THEN
            ParseChars(s, p + 6,
                Append(acc, (CHOOSE u \in UnicodeEscapes :
                                u[1] = SubSeq(s, p + 2, p + 5))[2]))
        ELSE ParseFail
    ELSE ParseChars(s, p + 1, Append(acc, s[p]))

RECURSIVE ParseDigits(_, _, _)
ParseDigits(s, p, acc) ==
    IF p <= Len(s) /\ IsDigit(s[p])
    THEN ParseDigits(s, p + 1, 10 * acc + DigitValue(s[p]))
    ELSE ParseOk(PyInt(acc), p)

RECURSIVE ParseValue(_, _)
RECURSIVE ParseItems(_, _, _)
RECURSIVE ParseMembers(_, _, _)

\* array elements from position p (after "[" or after a comma)
ParseItems(s, p, acc) ==
    LET r == ParseValue(s, SkipWs(s, p))
        q == SkipWs(s, r.pos)
    IN  IF ~r.ok \/ q > Len(s) THEN ParseFail
        ELSE IF s[q] = "]" THEN ParseOk(PyList(Append(acc, r.val)), q + 1)
        ELSE IF s[q] = "," THEN ParseItems(s, q + 1, Append(acc, r.val))
        ELSE ParseFail

\* object members from position p (after "{" or after a comma)
ParseMembers(s, p, acc) ==
    LET k0 == SkipWs(s, p)
        k == IF k0 <= Len(s) /\ s[k0] = "\"" THEN ParseChars(s, k0 + 1, <<>>)
             ELSE ParseFail
        c == SkipWs(s, k.pos)
        r == IF k.ok /\ c <= Len(s) /\ s[c] = ":"
             THEN ParseValue(s, SkipWs(s, c + 1)) ELSE ParseFail
        q == SkipWs(s, r.pos)
    IN  IF ~r.ok \/ q > Len(s) THEN ParseFail
        ELSE IF s[q] = "}"
            THEN ParseOk(PyDict(Append(acc, <<k.val.v, r.val>>)), q + 1)
        ELSE IF s[q] = ","
            THEN ParseMembers(s, q + 1, Append(acc, <<k.val.v, r.val>>))
        ELSE ParseFail

ParseValue(s, p) ==
    IF p > Len(s) THEN ParseFail
    ELSE IF s[p] = "\"" THEN ParseChars(s, p + 1, <<>>)
    ELSE IF IsDigit(s[p]) THEN ParseDigits(s, p, 0)
    ELSE IF s[p] = "-" THEN
        IF p + 1 <= Len(s) /\ IsDigit(s[p + 1])
        THEN LET r == ParseDigits(s, p + 1, 0)
             IN  ParseOk(PyInt(0 - r.val.v), r.pos)
        ELSE ParseFail
    ELSE IF s[p] = "n" THEN
        IF p + 3 <= Len(s) /\ SubSeq(s, p, p + 3) = <<"n", "u", "l", "l">>
        THEN ParseOk(PyNone, p + 4) ELSE ParseFail
    ELSE IF s[p] = "[" THEN
        LET q == SkipWs(s, p + 1)
        IN  IF q <= Len(s) /\ s[q] = "]" THEN ParseOk(PyList(<<>>), q + 1)
            ELSE ParseItems(s, q, <<>>)
    ELSE IF s[p] = "{" THEN
        LET q == SkipWs(s, p + 1)
        IN  IF q <= Len(s) /\ s[q] = "}" THEN ParseOk(PyDict(<<>>), q + 1)
            ELSE ParseMembers(s, q, <<>>)
    ELSE ParseFail

\* json.loads of one line: a single value and nothing after it
Loads(s) ==
    LET r == ParseValue(s, SkipWs(s, 1))
    IN  IF r.ok /\ SkipWs(s, r.pos) = Len(s) + 1 THEN r ELSE ParseFail

\* ----------------------------------------------------------------- lines
\* the newline-terminated lines of a file, without their newline; a text
\* after the last newline is an unterminated line and is not one of them
NewlineAt(s) == {p \in 1..Len(s) : s[p] = "\n"}

\* the k-th smallest element of a set of positions
NthOf(ps, k) == CHOOSE p \in ps : Cardinality({q \in ps : q <= p}) = k

Lines(s) ==
    LET nl == NewlineAt(s)
        at == [k \in 1..Cardinality(nl) |-> NthOf(nl, k)]
    IN  [k \in 1..Cardinality(nl) |->
            SubSeq(s, IF k = 1 THEN 1 ELSE at[k - 1] + 1, at[k] - 1)]

EndsClean(s) == s = <<>> \/ s[Len(s)] = "\n"

IsPrefix(a, b) == Len(a) <= Len(b) /\ a = SubSeq(b, 1, Len(a))


\* ------------------------------------------------- what the chunker yields
\* A document item; str(ref) renders it.
Refs == {[self_ref |-> <<"#", "/", "0">>]}

Str(ref) == <<"r", "e", "f", "=", "'">> \o ref.self_ref \o <<"'">>

Labels == {<<"n", "\"">>}

Texts == BSeq(Alphabet, MaxTextLen)

\* headings and captions of a chunk: None, or a list of strings
OptLabelLists ==
    {PyNone} \cup {PyList(ls) : ls \in BSeq({PyStr(l) : l \in Labels}, MaxLabels)}

PlainText == <<"n">>
PlainMeta == [doc_items |-> <<>>, headings |-> PyNone, captions |-> PyNone]

\* the metadata explored: every list of document items without headings and
\* captions, and every pair of headings and captions without document items
Metas ==
    {[doc_items |-> d, headings |-> PyNone, captions |-> PyNone] :
        d \in BSeq(Refs, MaxDocItems)}
    \cup {[doc_items |-> <<>>, headings |-> h, captions |-> c] :
            h \in OptLabelLists, c \in OptLabelLists}

\* the chunk objects explored: every text with plain metadata, and every
\* metadata with a plain text
Chunks == {[text |-> t, meta |-> PlainMeta] : t \in Texts}
            \cup {[text |-> PlainText, meta |-> m] : m \in Metas}

PlainChunk == [text |-> PlainText, meta |-> PlainMeta]

\* the chunk lists explored: up to MaxChunks chunks, any one of them any
\* chunk of Chunks and the others plain (an iteration of the loop reads
\* nothing of the other chunks)
ChunkLists ==
    {[k \in 1..n |-> IF k = p THEN c ELSE PlainChunk] :
        n \in 0..MaxChunks, p \in 1..MaxChunks, c \in Chunks}

\* the chunk objects explored on a disk that can fail (there every cut of
\* the flushed characters is explored, so the lists are kept few)
FaultChunks ==
    {[text |-> <<"\n">>, meta |-> PlainMeta],
     [text |-> <<"U+00E9">>,
      meta |-> [doc_items |-> <<>>, headings |-> PyList(<<>>), captions |-> PyNone]]}

ChunkerOutputs(d) == IF d = "ok" THEN ChunkLists ELSE BSeq(FaultChunks, MaxChunks)

StaleLine == <<"o", "l", "d", "\n">>
PriorContents == {Flatten([k \in 1..n |-> StaleLine]) : n \in 0..MaxPriorLines}

\* ------------------------------------------------------------ chunk_dict
KeyChunkId == <<"c", "h", "u", "n", "k", "_", "i", "d">>
KeyText == <<"t", "e", "x", "t">>
KeyMeta == <<"m", "e", "t", "a">>
KeyDocItems == <<"d", "o", "c", "_", "i", "t", "e", "m", "s">>
KeyHeadings == <<"h", "e", "a", "d", "i", "n", "g", "s">>
KeyCaptions == <<"c", "a", "p", "t", "i", "o", "n", "s">>

MetaDict(meta) ==
    PyDict(<< <<KeyDocItems,
                PyList([k \in 1..Len(meta.doc_items) |->
                            PyStr(Str(meta.doc_items[k]))])>>,
              <<KeyHeadings, meta.headings>>,
              <<KeyCaptions, meta.captions>> >>)

\* as ChunkDict, but chunk_id counts from 1
ChunkDictOneBased(idx, chunk) ==
    PyDict(<< <<KeyChunkId, PyInt(idx + 1)>>,
              <<KeyText, PyStr(chunk.text)>>,
              <<KeyMeta, MetaDict(chunk.meta)>> >>)

\* as ChunkDict, but the metadata fields are merged into the top level
ChunkDictFlat(idx, chunk) ==
    PyDict(<< <<KeyChunkId, PyInt(idx)>>,
              <<KeyText, PyStr(chunk.text)>> >> \o MetaDict(chunk.meta).v)

ChunkDict(idx, chunk) ==
    PyDict(<< <<KeyChunkId, PyInt(idx)>>,
              <<KeyText, PyStr(chunk.text)>>,
              <<KeyMeta, MetaDict(chunk.meta)>> >>)

\* the argument of f.write for chunk number idx
RecordLine(idx, chunk) == Dumps(ChunkDict(idx, chunk)) \o <<"\n">>

\* as ProgressLine, but the index counts from 1
ProgressLineOneBased(idx, chunk) ==
    [kind |-> "progress", index |-> idx + 1, chars |-> Len(chunk.text)]

ProgressLine(idx, chunk) ==
    [kind |-> "progress", index |-> idx, chars |-> Len(chunk.text)]

SummaryLine(cs) == [kind |-> "summary", count |-> Len(cs)]

\* ------------------------------------------------------------------ state
VARIABLES
    pc,        \* position in the script
    input,     \* "present" or "absent": the PDF at the input path
    disk,      \* "ok" or "faulty": whether writes to the disk can fail
    prior,     \* contents of the output path before the run
    chunks,    \* list(chunker.chunk(doc))
    i,         \* enumerate index of the next chunk
    f,         \* the handle: "unopened", "open" or "closed"
    opens,     \* number of open() calls made
    written,   \* characters accepted by f.write, in order
    nwrites,   \* number of f.write calls that returned
    file,      \* contents of the output path (while f is open: the part
               \* that was there when f was opened; what f buffers is in
               \* written and reaches the path when f is flushed)
    console,   \* lines printed
    err,       \* "none", or what raised
    fail_at    \* index of the chunk whose iteration raised, or -1

vars == <<pc, input, disk, prior, chunks, i, f, opens, written, nwrites,
          file, console, err, fail_at>>

Init ==
    /\ pc = "convert"
    /\ input \in {"present", "absent"}
    /\ disk \in {"ok", "faulty"}
    /\ prior \in PriorContents
    /\ chunks = <<>>
    /\ i = 0
    /\ f = "unopened"
    /\ opens = 0
    /\ written = <<>>
    /\ nwrites = 0
    /\ file = prior
    /\ console = <<>>
    /\ err = "none"
    /\ fail_at = -1

\* as Convert, but a missing input is not noticed
ConvertNoRaise ==
    /\ pc = "convert"
    /\ pc' = "chunk"
    /\ UNCHANGED <<input, disk, prior, chunks, i, f, opens, written, nwrites,
                   file, console, err, fail_at>>

\* lines 8-10: converter.convert raises when the input cannot be read
Convert ==
    /\ pc = "convert"
    /\ IF input = "present"
       THEN pc' = "chunk" /\ err' = err
       ELSE pc' = "failed" /\ err' = "convert"
    /\ UNCHANGED <<input, disk, prior, chunks, i, f, opens, written, nwrites,
                   file, console, fail_at>>

\* lines 12-13
Chunk ==
    /\ pc = "chunk"
    /\ chunks' \in ChunkerOutputs(disk)
    /\ pc' = "open"
    /\ UNCHANGED <<input, disk, prior, i, f, opens, written, nwrites, file,
                   console, err, fail_at>>

\* as Open, but in mode "a": the earlier contents are kept
OpenAppend ==
    /\ pc = "open"
    /\ f' = "open"
    /\ opens' = opens + 1
    /\ written' = <<>>
    /\ i' = 0
    /\ pc' = "loop"
    /\ UNCHANGED <<input, disk, prior, chunks, nwrites, file, console, err,
                   fail_at>>

\* line 17: mode "w" creates or truncates the file
Open ==
    /\ pc = "open"
    /\ f' = "open"
    /\ opens' = opens + 1
    /\ file' = <<>>
    /\ written' = <<>>
    /\ i' = 0
    /\ pc' = "loop"
    /\ UNCHANGED <<input, disk, prior, chunks, nwrites, console, err, fail_at>>

\* as SaveChunk, but the record is built from the first chunk of the list
SaveChunkFirst ==
    /\ pc = "loop" /\ i < Len(chunks)
    /\ console' = Append(console, ProgressLine(i, chunks[i + 1]))
    /\ f = "open"
    /\ written' = written \o RecordLine(i, chunks[1])
    /\ nwrites' = nwrites + 1
    /\ i' = i + 1
    /\ UNCHANGED <<pc, input, disk, prior, chunks, f, opens, file, err, fail_at>>

\* lines 18-29, an iteration that raises nothing
SaveChunk ==
    /\ pc = "loop" /\ i < Len(chunks)
    /\ console' = Append(console, ProgressLine(i, chunks[i + 1]))
    /\ f = "open"
    /\ written' = written \o RecordLine(i, chunks[i + 1])
    /\ nwrites' = nwrites + 1
    /\ i' = i + 1
    /\ UNCHANGED <<pc, input, disk, prior, chunks, f, opens, file, err, fail_at>>

\* as BuildRaises, but the progress line is printed after the write
BuildRaisesBeforePrint ==
    /\ pc = "loop" /\ i < Len(chunks)
    /\ err' = "build"
    /\ fail_at' = i
    /\ pc' = "exit"
    /\ UNCHANGED <<input, disk, prior, chunks, i, f, opens, written, nwrites,
                   file, console>>

\* lines 18-29, an iteration in which building the record (lines 20-28, or
\* json.dumps on line 29) raises: nothing is handed to f.write
BuildRaises ==
    /\ pc = "loop" /\ i < Len(chunks)
    /\ console' = Append(console, ProgressLine(i, chunks[i + 1]))
    /\ err' = "build"
    /\ fail_at' = i
    /\ pc' = "exit"
    /\ UNCHANGED <<input, disk, prior, chunks, i, f, opens, written, nwrites,
                   file>>

\* lines 18-29, an iteration in which f.write raises OSError: the buffered
\* characters and those of this record were being flushed, and any part of
\* them short of the whole has reached the disk (the buffer size and the
\* byte lengths are not modelled: the cut is any position)
WriteRaises ==
    /\ pc = "loop" /\ i < Len(chunks)
    /\ disk = "faulty"
    /\ console' = Append(console, ProgressLine(i, chunks[i + 1]))
    /\ \E n \in 0..(Len(written) + Len(RecordLine(i, chunks[i + 1])) - 1) :
          file' = file \o SubSeq(written \o RecordLine(i, chunks[i + 1]), 1, n)
    /\ err' = "io"
    /\ fail_at' = i
    /\ pc' = "exit"
    /\ UNCHANGED <<input, disk, prior, chunks, i, f, opens, written, nwrites>>

\* as ExitWith, but without the with statement: f.close() is reached only
\* when the loop raised nothing
ExitWithoutWith ==
    /\ \/ pc = "loop" /\ i = Len(chunks)
       \/ pc = "exit"
    /\ f' = IF err = "none" THEN "closed" ELSE f
    /\ IF err = "io"
       THEN file' = file /\ err' = err
       ELSE IF disk = "ok"
       THEN file' = file \o written /\ err' = err
       ELSE \E n \in 0..Len(written) :
              /\ file' = file \o SubSeq(written, 1, n)
              /\ err' = IF n < Len(written) THEN "io" ELSE err
    /\ pc' = IF err' = "none" THEN "summary" ELSE "failed"
    /\ UNCHANGED <<input, disk, prior, chunks, i, opens, written, nwrites,
                   console, fail_at>>

\* leaving the with block, normally or by an exception: f.close() flushes
\* what is buffered and releases the handle; on a faulty disk the flush can
\* stop short and raise
ExitWith ==
    /\ \/ pc = "loop" /\ i = Len(chunks)
       \/ pc = "exit"
    /\ f' = "closed"
    /\ IF err = "io"
       THEN file' = file /\ err' = err
       ELSE IF disk = "ok"
       THEN file' = file \o written /\ err' = err
       ELSE \E n \in 0..Len(written) :
              /\ file' = file \o SubSeq(written, 1, n)
              /\ err' = IF n < Len(written) THEN "io" ELSE err
    /\ pc' = IF err' = "none" THEN "summary" ELSE "failed"
    /\ UNCHANGED <<input, disk, prior, chunks, i, opens, written, nwrites,
                   console, fail_at>>

\* line 31
Summary ==
    /\ pc = "summary"
    /\ console' = Append(console, SummaryLine(chunks))
    /\ pc' = "done"
    /\ UNCHANGED <<input, disk, prior, chunks, i, f, opens, written, nwrites,
                   file, err, fail_at>>

Next ==
    \/ Convert
    \/ Chunk
    \/ Open
    \/ SaveChunk
    \/ BuildRaises
    \/ WriteRaises
    \/ ExitWith
    \/ Summary

Spec == Init /\ [][Next]_vars

Terminated == pc \in {"done", "failed"}


\* ----------------------------------------------------- reading the output
\* d[key] of a decoded object (the last member of that name, as json.loads
\* keeps it)
HasField(d, key) == d.t = "dict" /\ \E k \in 1..Len(d.v) : d.v[k][1] = key
Field(d, key) ==
    d.v[CHOOSE k \in 1..Len(d.v) :
            /\ d.v[k][1] = key
            /\ \A m \in (k + 1)..Len(d.v) : d.v[m][1] # key][2]

KeySet(d) == {d.v[k][1] : k \in 1..Len(d.v)}

IsStringList(x) == x.t = "list" /\ \A k \in 1..Len(x.v) : x.v[k].t = "str"

\* the output of a run over chunks cs that raises nothing, up to record n
OutputUpTo(cs, n) == Flatten([k \in 1..n |-> RecordLine(k - 1, cs[k])])

ProgressCount == Cardinality({k \in 1..Len(console) : console[k].kind = "progress"})
SummaryCount == Cardinality({k \in 1..Len(console) : console[k].kind = "summary"})

\* ----------------------------------------------------------------- claims

\* C1: after a run that completes without error the output file has exactly
\* one line per chunk, whatever it held before: as many newline-terminated
\* lines as chunks, nothing after the last newline, and every line is one
\* complete JSON value.
C1_LineCount ==
    pc = "done" =>
        LET ls == Lines(file)
        IN  /\ Len(ls) = Len(chunks)
            /\ EndsClean(file)
            /\ \A k \in 1..Len(ls) : Loads(ls[k]).ok

C1_Witness ==
    /\ pc = "done"
    /\ prior # <<>>
    /\ Len(chunks) >= 2
    /\ \E k \in 1..Len(chunks) : chunks[k].text = <<"\n">>

\* C2: in every state the lines written so far carry the chunk_id values
\* 0, 1, ..., k-1 in file order, k being the number of writes made.
C2_SequentialIds ==
    LET ls == Lines(written)
    IN  /\ Len(ls) = nwrites
        /\ EndsClean(written)
        /\ \A k \in 1..Len(ls) :
              LET r == Loads(ls[k])
              IN  /\ r.ok
                  /\ HasField(r.val, KeyChunkId)
                  /\ Field(r.val, KeyChunkId) = PyInt(k - 1)

C2_Witness == pc = "loop" /\ nwrites >= 2 /\ f = "open"

\* C3: every record written is a JSON object with exactly the three
\* top-level keys chunk_id, text and meta.
C3_ExactKeys ==
    LET ls == Lines(written)
    IN  \A k \in 1..Len(ls) :
        LET r == Loads(ls[k])
        IN  /\ r.ok
            /\ r.val.t = "dict"
            /\ Len(r.val.v) = 3
            /\ KeySet(r.val) = {KeyChunkId, KeyText, KeyMeta}

C3_Witness ==
    /\ pc = "done"
    /\ file = written
    /\ Len(chunks) >= 2
    /\ \E k \in 1..Len(chunks) : chunks[k].meta.doc_items # <<>>

\* C4: in every record written, meta.doc_items, meta.headings and
\* meta.captions are each a list of strings.
C4_MetaStringLists ==
    LET ls == Lines(written)
    IN  \A k \in 1..Len(ls) :
        LET r == Loads(ls[k])
            m == Field(r.val, KeyMeta)
        IN  /\ r.ok
            /\ HasField(r.val, KeyMeta)
            /\ HasField(m, KeyDocItems) /\ IsStringList(Field(m, KeyDocItems))
            /\ HasField(m, KeyHeadings) /\ IsStringList(Field(m, KeyHeadings))
            /\ HasField(m, KeyCaptions) /\ IsStringList(Field(m, KeyCaptions))

\* C5: when the input file is absent the run ends in failure at the
\* conversion step and the output file is never opened, created or
\* truncated, no record is written and nothing is printed.
C5_AbsentInput ==
    input = "absent" =>
        /\ pc \in {"convert", "failed"}
        /\ pc = "failed" => err = "convert"
        /\ f = "unopened" /\ opens = 0
        /\ file = prior
        /\ written = <<>> /\ nwrites = 0
        /\ console = <<>>

C5_Witness == input = "absent" /\ pc = "failed" /\ prior # <<>>

\* C6: after a successful run the i-th output line carries the text and the
\* metadata of the i-th chunk returned by the chunker, for every i: nothing
\* is reordered, skipped or written twice.
C6_OrderPreserved ==
    pc = "done" =>
        LET ls == Lines(file)
        IN
        /\ Len(ls) = Len(chunks)
        /\ \A k \in 1..Len(chunks) :
              LET r == Loads(ls[k])
                  m == Field(r.val, KeyMeta)
                  c == chunks[k]
              IN  /\ r.ok
                  /\ HasField(r.val, KeyText) /\ HasField(r.val, KeyMeta)
                  /\ Field(r.val, KeyText) = PyStr(c.text)
                  /\ HasField(m, KeyDocItems) /\ HasField(m, KeyHeadings)
                  /\ HasField(m, KeyCaptions)
                  /\ Field(m, KeyDocItems) =
                        PyList([j \in 1..Len(c.meta.doc_items) |->
                                    PyStr(Str(c.meta.doc_items[j]))])
                  /\ Field(m, KeyHeadings) = c.meta.headings
                  /\ Field(m, KeyCaptions) = c.meta.captions

C6_Witness ==
    /\ pc = "done"
    /\ Len(chunks) >= 2
    /\ chunks[1] # chunks[2]
    /\ chunks[2].meta # PlainMeta

\* C7: the output file is opened at most once, in every terminal state of a
\* run that opened it the handle is closed, whether the run completed or
\* raised while serializing or writing, and once the handle is closed
\* nothing more is written through it.
C7_ClosedOnExit ==
    /\ [](/\ opens <= 1
          /\ (opens = 0) = (f = "unopened")
          /\ (Terminated /\ opens = 1) => f = "closed")
    /\ [][f = "closed" =>
            /\ f' = "closed"
            /\ written' = written
            /\ nwrites' = nwrites]_vars

C7_Witness ==
    /\ pc = "failed"
    /\ fail_at >= 0
    /\ f = "closed"

\* C8: a run that completes without error over N chunks prints N progress
\* lines, the i-th with index i and the character count of chunk i's text,
\* then one summary line with the count N; a summary line is printed only
\* once all N records are written and the file is closed, and never on a
\* failed run.
C8_Console ==
    /\ pc = "done" =>
          /\ Len(console) = Len(chunks) + 1
          /\ \A k \in 1..Len(chunks) :
                console[k] = [kind |-> "progress", index |-> k - 1,
                              chars |-> Len(chunks[k].text)]
          /\ console[Len(chunks) + 1] = [kind |-> "summary", count |-> Len(chunks)]
    /\ SummaryCount > 0 =>
          /\ pc = "done"
          /\ f = "closed"
          /\ nwrites = Len(chunks)
          /\ Len(Lines(file)) = Len(chunks)
    /\ pc = "failed" => SummaryCount = 0

C8_Witness ==
    /\ pc = "done"
    /\ Len(chunks) >= 2
    /\ Len(chunks[1].text) # Len(chunks[2].text)

\* C9: after a successful run, decoding the i-th output line and taking its
\* text field gives the text of chunk i, whose character count is the one
\* reported in the i-th progress line.
C9_RoundTrip ==
    pc = "done" =>
        LET ls == Lines(file)
        IN
        \A k \in 1..Len(chunks) :
            LET r == Loads(ls[k])
            IN  /\ k <= Len(ls)
                /\ r.ok
                /\ HasField(r.val, KeyText)
                /\ Field(r.val, KeyText).t = "str"
                /\ Field(r.val, KeyText).v = chunks[k].text
                /\ Len(Field(r.val, KeyText).v) = console[k].chars

C9_Witness ==
    /\ pc = "done"
    /\ Len(chunks) >= 2
    /\ chunks[2].text = <<"\n">>
    /\ Len(Lines(file)[2]) > Len(Lines(file)[1])

\* C10 as stated: when the iteration of chunk k raises, the run ends in
\* failure, the output file holds exactly the complete records of chunks
\* 0..k-1, the progress lines printed are one more than the records
\* written, and no summary line is printed.
C10_Original ==
    (Terminated /\ fail_at >= 0) =>
        /\ pc = "failed"
        /\ file = OutputUpTo(chunks, fail_at)
        /\ ProgressCount = Len(Lines(file)) + 1
        /\ SummaryCount = 0

\* C10 as amended: when the iteration of chunk k raises, the run ends in
\* failure with no retry; the output file holds a prefix of the successful
\* output that stops short of the end of record k; it is exactly the
\* complete records of chunks 0..k-1 unless an I/O error cut a flush short;
\* k+1 progress lines are printed, one more than the writes that returned,
\* and no summary line.
C10_FailurePrefix ==
    (Terminated /\ fail_at >= 0) =>
        /\ pc = "failed"
        /\ i = fail_at /\ nwrites = fail_at
        /\ IsPrefix(file, OutputUpTo(chunks, fail_at + 1))
        /\ Len(file) < Len(OutputUpTo(chunks, fail_at + 1))
        /\ err # "io" => file = OutputUpTo(chunks, fail_at)
        /\ ProgressCount = fail_at + 1
        /\ ProgressCount = nwrites + 1
        /\ Len(console) = ProgressCount
        /\ SummaryCount = 0

C10_Witness ==
    /\ pc = "failed"
    /\ fail_at >= 1
    /\ err = "io"
    /\ ~EndsClean(file)
    /\ Len(file) > Len(OutputUpTo(chunks, fail_at))

====
